---- MODULE Spec2Model ----
(***************************************************************************)
(* Project Monica: the task-chain webhook handler (function_app.py), the   *)
(* recurring-task timers (task_creator.py) and the subscription renewer    *)
(* (webhook_renewal.py).                                                   *)
(*                                                                         *)
(* The remote to-do service, the rule document, the identity and the       *)
(* clock are the environment; one invocation of a function is a process    *)
(* that takes one step per remote call it makes.                           *)
(*                                                                         *)
(* Python values are kept in their shape: a dict is a record whose DOMAIN  *)
(* holds the keys that are present, a list is a sequence, a string that    *)
(* the code parses (due_time, resource) is a sequence of characters or of  *)
(* lexical tokens.                                                         *)
(***************************************************************************)
EXTENDS Integers, Sequences, FiniteSets, TLC

\* ------------------------------------------------------------------ bounds
MaxTasks == 2       \* tasks the target list can hold
MaxDay == 2         \* the clock's UTC day is one of 1..MaxDay
MaxWeeks == 6       \* the timers fire within MaxWeeks weeks of 13 Feb 2026
MaxFirings == 2     \* firings of the recurring-task timers on one date
MaxRuns == 3        \* daily firings of the renewer: number 0..MaxRuns - 1

\* ------------------------------------------------------- python primitives
\* dict.get(key, default)
Get(d, k, default) == IF k \in DOMAIN d THEN d[k] ELSE default

\* python truthiness of a str kept as a sequence of characters, or of None
NoneValue == <<"None">>
Truthy(s) == s # NoneValue /\ s # <<>>

Min(S) == CHOOSE x \in S : \A y \in S : x <= y

Digits == <<"0", "1", "2", "3", "4", "5", "6", "7", "8", "9">>
IsDigit(ch) == \E i \in 1..10 : Digits[i] = ch
DigitValue(ch) == (CHOOSE i \in 1..10 : Digits[i] = ch) - 1

\* str.split(":"): the pieces between the colons, in order
ColonPositions(s) == {i \in 1..Len(s) : s[i] = ":"}
RECURSIVE SplitColon(_)
SplitColon(s) ==
    IF ColonPositions(s) = {} THEN <<s>>
    ELSE LET i == Min(ColonPositions(s))
         IN <<SubSeq(s, 1, i - 1)>> \o SplitColon(SubSeq(s, i + 1, Len(s)))

\* int(piece): a ValueError unless the piece is a non-empty run of digits
IsInt(s) == s # <<>> /\ \A i \in 1..Len(s) : IsDigit(s[i])
RECURSIVE IntOf(_)
IntOf(s) ==
    IF s = <<>> THEN 0
    ELSE 10 * IntOf(SubSeq(s, 1, Len(s) - 1)) + DigitValue(s[Len(s)])

\* strftime("%H") / ("%M") / ("%S"): two digits, zero padded
TwoDigits(n) == <<Digits[(n \div 10) + 1], Digits[(n % 10) + 1]>>

\* ------------------------------------------------------------- regex match
\* re.search(r"lists\('([^']+)'\)", resource).  A resource is a sequence of
\* lexical tokens: the literal "lists('", the literal "')", and text pieces.
\* A text piece that holds no quote is plain; group(1) is the plain piece
\* between the first "lists('" that is followed by a plain piece and "')".
Marker == "lists('"
Close == "')"
QuotedTokens == {Marker, Close, "/tasks('", "Lists('"}
IsPlain(tok) == tok \notin QuotedTokens
MatchStarts(resource) ==
    {i \in 1..Len(resource) :
        /\ i + 2 <= Len(resource)
        /\ resource[i] = Marker
        /\ IsPlain(resource[i + 1])
        /\ resource[i + 2] = Close}
NoMatch == "<no match>"
ListIdMatch(resource) ==
    IF MatchStarts(resource) = {} THEN NoMatch
    ELSE resource[Min(MatchStarts(resource)) + 1]

\* ------------------------------------------------------- the remote store
\* GET /todo/lists answers the lists in this order.
Lists == <<[id |-> "L1", displayName |-> "Laundry"],
           [id |-> "L2", displayName |-> "Chores"],
           [id |-> "L3", displayName |-> "Chores"]>>
ListIds == {Lists[i].id : i \in 1..Len(Lists)}
NoList == "<None>"

TWash == [title |-> "Wash: Towels", status |-> "completed", by |-> "user", completedDay |-> 0]
TWashOpen == [title |-> "Wash: Towels", status |-> "notStarted", by |-> "user"]
TLower == [title |-> "wash: towels", status |-> "completed", by |-> "user", completedDay |-> 0]
TDryDone == [title |-> "Dry: Towels", status |-> "completed", by |-> "user", completedDay |-> 0]

\* The source list and the target list as an invocation can find them.
SourceLists == {<<TWash>>, <<TWash, TWash>>, <<TLower, TWashOpen>>}
TargetLists == {<<>>, <<TDryDone>>}

\* ---------------------------------------------------- the rule document
\* task-chains.json: a JSON array of rules; due_time is optional.
RDry == [trigger_task |-> "Wash: Towels", creates_task |-> "Dry: Towels",
         list |-> "Chores", category |-> "[02] Home",
         due_time |-> <<"1", "9", ":", "0", "0">>]
RFold == [trigger_task |-> "Wash: Towels", creates_task |-> "Fold: Towels",
          list |-> "Chores", category |-> "[03] Later"]
RLost == [trigger_task |-> "Wash: Towels", creates_task |-> "Iron: Towels",
          list |-> "Attic", category |-> "[02] Home", due_time |-> <<>>]
RAir == [trigger_task |-> "Wash: Towels", creates_task |-> "Air: Towels",
         list |-> "Chores", category |-> "[02] Home",
         due_time |-> <<"2", "5", ":", "0", "0">>]
RuleDocs == {<<>>, <<RDry>>, <<RDry, RFold>>, <<RLost, RDry>>, <<RAir>>}

\* ------------------------------------------------------------ the requests
ResGood == <<"users/u/todo/", Marker, "L1", Close, "/tasks('", "T1", Close>>
ResNoPattern == <<"users/u/todo/", "Lists('", "L1", Close>>
\* a change to another task of the same list
ResOther == <<"users/u/todo/", Marker, "L1", Close, "/tasks('", "T2", Close>>
NGood == [subscriptionId |-> "s1", resource |-> ResGood]
NNoPattern == [subscriptionId |-> "s1", resource |-> ResNoPattern]
NNoResource == [subscriptionId |-> "s1"]
NOther == [subscriptionId |-> "s1", resource |-> ResOther]
\* The "value" arrays a delivery can carry.
Batches == {<<>>, <<NGood>>, <<NOther>>, <<NNoPattern>>, <<NNoResource>>, <<NGood, NGood>>,
            <<NNoPattern, NGood>>, <<NGood, NNoResource>>,
            <<NNoResource, NGood, NNoPattern>>}

NoParams == [code |-> "k"]
Bodies == {[kind |-> "invalid"], [kind |-> "array"],
           [kind |-> "object", obj |-> [other |-> "x"]]}
          \cup {[kind |-> "object", obj |-> [value |-> b]] : b \in Batches}
Requests ==
    {[method |-> "POST", params |-> NoParams, body |-> b] : b \in Bodies}
    \cup {[method |-> m, params |-> [code |-> "k", validationToken |-> v], body |-> b] :
            m \in {"GET", "POST"}, v \in {"", "abc123"},
            b \in {[kind |-> "invalid"], [kind |-> "object", obj |-> [value |-> <<NGood>>]]}}
    \cup {[method |-> "GET", params |-> NoParams,
           body |-> [kind |-> "object", obj |-> [value |-> <<NGood>>]]]}

\* --------------------------------------------------------------- variables
VARIABLES
    tasks,      \* the to-do service: list id -> the tasks of the list, in order
    ruleDoc,    \* the content of task-chains.json
    today,      \* the UTC day of the clock while the deliveries are served
    overlap,    \* whether the platform runs two deliveries at the same time
    inv,        \* invocation -> the locals of taskChain and its position
    prev,       \* the last invocation that created a task: its request, what it created
    faults,     \* what can fail hard: "identity" (no token), "raises" (a remote call)
    date,       \* the UTC date on which the recurring-task timers fire
    home,       \* the tasks of the home list (HOME_LIST_ID), in order of creation
    job,        \* the recurring-task job that is running: its locals and position
    lastjob,    \* the job firing before this one: its name and the calls it issued
    subs,       \* the subscription service: the subscriptions, in listing order
    clock,      \* the renewer's clock: minutes since 00:00 UTC of day 0, and the day
    ren         \* the renewer firing: its locals and position

dispatcher == <<tasks, ruleDoc, today, overlap, inv, prev, faults>>
generator == <<date, home, job, lastjob>>
renewer == <<subs, clock, ren>>
vars == <<tasks, ruleDoc, today, overlap, inv, prev, faults,
          date, home, job, lastjob, subs, clock, ren>>

Procs == {"A", "B"}

NoRequest == [method |-> "", params |-> NoParams, body |-> [kind |-> "none"]]
NoResponse == [status_code |-> 0, body |-> "", mimetype |-> ""]
\* app: the rule application in hand (task t, chain c, the list it resolved
\* to, whether the target list held the successor when it was queried, the
\* creation calls made for it, whether its existence query was answered 2xx).
\* post: the creation call just made.
NoApp == [t |-> 0, c |-> 0, target |-> NoList, absent |-> FALSE, posts |-> 0,
          answered |-> FALSE]
NoPost == [n |-> 0]
Idle ==
    [pc |-> "idle", req |-> NoRequest, response |-> NoResponse, raised |-> "",
     token |-> "<None>", calls |-> {}, notifications |-> <<>>, chains |-> <<>>, n |-> 0,
     completed |-> <<>>, t |-> 0, c |-> 0, target_list_id |-> NoList,
     queried |-> {}, seen |-> 0, app |-> NoApp, post |-> NoPost,
     posted |-> {}, created |-> {}]
NoPrev == [req |-> NoRequest, created |-> {}]

\* ------------------------------------------------------------ remote calls
\* Each remote call is answered 2xx (ok) or with a non-2xx JSON error body,
\* which has no "value" key.

\* get_list_id: the id of the first list whose displayName is list_name
get_list_id(ok, list_name) ==
    LET lists == IF ok THEN Lists ELSE <<>>
        hits == {i \in 1..Len(lists) : lists[i].displayName = list_name}
    IN IF hits = {} THEN NoList ELSE lists[Min(hits)].id

\* get_completed_tasks: the tasks of the list the service's filter keeps
get_completed_tasks(ok, list_id) ==
    IF ok /\ list_id \in ListIds
    THEN SelectSeq(tasks[list_id], LAMBDA task : task.status = "completed")
    ELSE <<>>

\* task_exists: whether some task of the answer has this title
TitleIn(list_id, task_name) ==
    \E i \in 1..Len(tasks[list_id]) : Get(tasks[list_id][i], "title", "") = task_name
task_exists(ok, list_id, task_name) ==
    LET answer == IF ok THEN tasks[list_id] ELSE <<>>
    IN \E i \in 1..Len(answer) : Get(answer[i], "title", "") = task_name

\* create_task, lines 126-136: the dueDateTime of the body, or none
DueParts(due_time) == SplitColon(due_time)
DueParses(due_time) ==
    /\ Len(DueParts(due_time)) = 2
    /\ IsInt(DueParts(due_time)[1]) /\ IsInt(DueParts(due_time)[2])
    /\ IntOf(DueParts(due_time)[1]) \in 0..23
    /\ IntOf(DueParts(due_time)[2]) \in 0..59
HasDueUnchecked(due_time) == Truthy(due_time)
HasDue(due_time) == Truthy(due_time) /\ DueParses(due_time)
DueDateTime(due_time, day) ==
    [dateTime |-> [date |-> day,
                   time |-> TwoDigits(IntOf(DueParts(due_time)[1])) \o <<":">>
                            \o TwoDigits(IntOf(DueParts(due_time)[2])) \o <<":", "0", "0">>,
                   fraction |-> ".0000000"],
     timeZone |-> "UTC"]

\* create_task, lines 121-138: the JSON body of the POST
CreateBody(task_name, category, due_time, day) ==
    IF HasDue(due_time)
    THEN [title |-> task_name, categories |-> <<category>>,
          dueDateTime |-> DueDateTime(due_time, day)]
    ELSE [title |-> task_name, categories |-> <<category>>]

\* what the service stores for a task created from this body
Created(body) ==
    IF "dueDateTime" \in DOMAIN body
    THEN [title |-> body.title, categories |-> body.categories, status |-> "notStarted",
          by |-> "monica", dueDateTime |-> body.dueDateTime]
    ELSE [title |-> body.title, categories |-> body.categories, status |-> "notStarted",
          by |-> "monica"]

\* ============================================ task_creator.py: the timers
\* A date is a record (year, month, day); a datetime adds hour and minute.
\* toordinal(): the proleptic Gregorian ordinal of a date, day 1 = 0001-01-01.
IsLeap(y) == y % 4 = 0 /\ (y % 100 # 0 \/ y % 400 = 0)
DaysInMonth(y, m) ==
    IF m = 2 THEN (IF IsLeap(y) THEN 29 ELSE 28)
    ELSE IF m \in {4, 6, 9, 11} THEN 30 ELSE 31
DaysBeforeYear(y) ==
    (y - 1) * 365 + ((y - 1) \div 4) - ((y - 1) \div 100) + ((y - 1) \div 400)
RECURSIVE DaysBeforeMonth(_, _)
DaysBeforeMonth(y, m) ==
    IF m = 1 THEN 0 ELSE DaysBeforeMonth(y, m - 1) + DaysInMonth(y, m - 1)
Ordinal(d) == DaysBeforeYear(d.year) + DaysBeforeMonth(d.year, d.month) + d.day

\* (a - b).days for two datetimes: whole days, rounded towards minus infinity
MinuteOf(t) == Ordinal(t) * 1440 + t.hour * 60 + t.minute
DeltaDays(a, b) == (MinuteOf(a) - MinuteOf(b)) \div 1440

\* datetime(year, month, day, tzinfo=utc)
Midnight(y, m, d) == [year |-> y, month |-> m, day |-> d, hour |-> 0, minute |-> 0]

\* today_utc_at: the clock's date at the given hour and minute
today_utc_at(now, hour, minute) ==
    [year |-> now.year, month |-> now.month, day |-> now.day,
     hour |-> hour, minute |-> minute]

\* The dates on which the timers can fire: MaxWeeks weeks from 13 Feb 2026.
FirstDate == [year |-> 2026, month |-> 2, day |-> 13]
Dates ==
    {d \in [year : {2026}, month : 2..5, day : 1..31] :
        /\ d.day <= DaysInMonth(d.year, d.month)
        /\ Ordinal(d) \in Ordinal(FirstDate)..(Ordinal(FirstDate) + 7 * MaxWeeks)}

\* NCRONTAB day of week: 0 = Sunday .. 6 = Saturday
DayOfWeek(d) == Ordinal(d) % 7

\* get_access_token of task_creator.py and webhook_renewal.py: the token, or
\* None when the identity variables are missing, the exchange raises (also
\* raise_for_status on a non-2xx answer) or the answer holds no access_token.
NoToken == "<None>"
Identities ==
    {[configured |-> TRUE, answer |-> "token"],
     [configured |-> FALSE, answer |-> "token"],
     [configured |-> TRUE, answer |-> "non-2xx"],
     [configured |-> TRUE, answer |-> "raises"],
     [configured |-> TRUE, answer |-> "no access_token"]}
get_access_token(identity) ==
    IF ~identity.configured THEN NoToken
    ELSE IF identity.answer = "token" THEN "token"
    ELSE NoToken

\* create_todo_task, lines 53-67: the JSON body of the POST
NoTime == [none |-> TRUE]
Stamp(t) ==
    [dateTime |-> [date |-> [year |-> t.year, month |-> t.month, day |-> t.day],
                   time |-> TwoDigits(t.hour) \o <<":">> \o TwoDigits(t.minute)
                            \o <<":", "0", "0">>,
                   fraction |-> ".0000000"],
     timeZone |-> "UTC"]
create_todo_task(title, category, due_utc, reminder_utc) ==
    IF due_utc # NoTime /\ reminder_utc # NoTime
    THEN [title |-> title, categories |-> <<category>>, dueDateTime |-> Stamp(due_utc),
          reminderDateTime |-> Stamp(reminder_utc), isReminderOn |-> TRUE]
    ELSE IF due_utc # NoTime
    THEN [title |-> title, categories |-> <<category>>, dueDateTime |-> Stamp(due_utc)]
    ELSE IF reminder_utc # NoTime
    THEN [title |-> title, categories |-> <<category>>,
          reminderDateTime |-> Stamp(reminder_utc), isReminderOn |-> TRUE]
    ELSE [title |-> title, categories |-> <<category>>]

\* The creation calls of each job, in order, for a firing on the date now.
createMorningTasks(now) ==
    <<create_todo_task("First: Make the Bed", "[00] System", today_utc_at(now, 4, 0), NoTime),
      create_todo_task("Take: Morning pill", "[01] Self", today_utc_at(now, 5, 0), NoTime),
      create_todo_task("Shower", "[01] Self", today_utc_at(now, 5, 0), NoTime),
      create_todo_task("Train: Place", "[05] Family", today_utc_at(now, 5, 0), NoTime)>>
createEveningTasks(now) ==
    <<create_todo_task("Take: Evening pill", "[01] Self", today_utc_at(now, 17, 0), NoTime)>>
createMondayTasks(now) ==
    <<create_todo_task("Wash: Blue Monday", "[00] System", today_utc_at(now, 5, 0), NoTime),
      create_todo_task("Vacuum: through and dust", "[00] System", today_utc_at(now, 5, 0),
                       today_utc_at(now, 9, 0))>>
createTuesdayTasks(now) ==
    <<create_todo_task("Wash: Beige Tuesday", "[00] System", today_utc_at(now, 5, 0), NoTime)>>
createWednesdayTasks(now) ==
    <<create_todo_task("Wash: Black Wednesday", "[00] System", today_utc_at(now, 5, 0), NoTime),
      create_todo_task("Vacuum: through and dust", "[00] System", today_utc_at(now, 5, 0),
                       today_utc_at(now, 9, 0))>>
createThursdayTasks(now) ==
    <<create_todo_task("Wash: Ad-hoc Laundry", "[00] System", today_utc_at(now, 5, 0), NoTime)>>

\* both series anchored on the same Friday
BeddingInPhase == Midnight(2026, 2, 27)
\* createFridayTasks, lines 219-228: the two fortnightly series
bath_towels_start == Midnight(2026, 2, 27)
bedding_start == Midnight(2026, 3, 6)
weeks_since(today_at, start) == DeltaDays(today_at, start) \div 7
FiresOddWeeks(today_at, start) ==
    weeks_since(today_at, start) >= 0 /\ weeks_since(today_at, start) % 2 = 1
Fires(today_at, start) ==
    weeks_since(today_at, start) >= 0 /\ weeks_since(today_at, start) % 2 = 0
createFridayTasks(now) ==
    <<create_todo_task("Vacuum: through and dust", "[00] System", today_utc_at(now, 5, 0),
                       today_utc_at(now, 9, 0))>>
    \o (IF Fires(today_utc_at(now, 5, 0), bath_towels_start)
        THEN <<create_todo_task("Wash: Bath Towels", "[00] System",
                                today_utc_at(now, 5, 0), NoTime)>>
        ELSE <<>>)
    \o (IF Fires(today_utc_at(now, 5, 0), bedding_start)
        THEN <<create_todo_task("Wash: Bedding", "[00] System",
                                today_utc_at(now, 5, 0), NoTime)>>
        ELSE <<>>)
createSundayTasks(now) ==
    <<create_todo_task("Wash: Napkins", "[00] System", today_utc_at(now, 17, 0), NoTime)>>
createMonthlyTasks(now) ==
    <<create_todo_task("Audit: Credit Score (Chase/Discover)", "[00] System",
                       today_utc_at(now, 5, 0), NoTime),
      create_todo_task("Update: Financial Position", "[00] System",
                       today_utc_at(now, 5, 0), NoTime)>>

JobNames == {"createMorningTasks", "createEveningTasks", "createMondayTasks",
             "createTuesdayTasks", "createWednesdayTasks", "createThursdayTasks",
             "createFridayTasks", "createSundayTasks", "createMonthlyTasks"}
\* the day fields of each timer's schedule
Scheduled(name, d) ==
    CASE name = "createMondayTasks" -> DayOfWeek(d) = 1
      [] name = "createTuesdayTasks" -> DayOfWeek(d) = 2
      [] name = "createWednesdayTasks" -> DayOfWeek(d) = 3
      [] name = "createThursdayTasks" -> DayOfWeek(d) = 4
      [] name = "createFridayTasks" -> DayOfWeek(d) = 5
      [] name = "createSundayTasks" -> DayOfWeek(d) = 0
      [] name = "createMonthlyTasks" -> d.day = 1
      [] OTHER -> TRUE
JobCalls(name, now) ==
    CASE name = "createMorningTasks" -> createMorningTasks(now)
      [] name = "createEveningTasks" -> createEveningTasks(now)
      [] name = "createMondayTasks" -> createMondayTasks(now)
      [] name = "createTuesdayTasks" -> createTuesdayTasks(now)
      [] name = "createWednesdayTasks" -> createWednesdayTasks(now)
      [] name = "createThursdayTasks" -> createThursdayTasks(now)
      [] name = "createFridayTasks" -> createFridayTasks(now)
      [] name = "createSundayTasks" -> createSundayTasks(now)
      [] OTHER -> createMonthlyTasks(now)

\* job: the firing in hand.  issued: the creation calls it has made, each
\* with the status the service answered.
NoJob == [pc |-> "idle", name |-> "", token |-> NoToken, k |-> 0, issued |-> <<>>,
          fired |-> 0]
NoLast == [name |-> "", token |-> NoToken, issued |-> <<>>]
GeneratorAtRest ==
    /\ date = FirstDate /\ home = <<>> /\ job = NoJob /\ lastjob = NoLast

\* ======================================== webhook_renewal.py: the renewer
\* Instants are minutes since 00:00 UTC of day 0.  A timestamp string keeps
\* its parts: the date (a day number), the time of day as characters and the
\* zone suffix; any other string is kept as text.
Str(text) == [kind |-> "str", text |-> text]
Null == [kind |-> "null"]

\* strftime("%Y-%m-%dT%H:%M:%SZ")
FormatZ(t) ==
    [kind |-> "str", date |-> t \div 1440,
     time |-> TwoDigits((t % 1440) \div 60) \o <<":">> \o TwoDigits(t % 60)
              \o <<":", "0", "0">>,
     zone |-> "Z"]
\* the same instant as a service may answer it: without a zone suffix
FormatNaive(t) == [FormatZ(t) EXCEPT !.zone = ""]

\* expiry_str.replace("Z", "+00:00")
ReplaceZ(str) ==
    IF "zone" \in DOMAIN str /\ str.zone = "Z" THEN [str EXCEPT !.zone = "+00:00"]
    ELSE str
\* datetime.fromisoformat: a ValueError unless the string is a timestamp
IsIsoFormat(str) ==
    /\ "time" \in DOMAIN str
    /\ Len(SplitColon(str.time)) = 3
    /\ \A i \in 1..3 : IsInt(SplitColon(str.time)[i]) /\ Len(SplitColon(str.time)[i]) = 2
    /\ IntOf(SplitColon(str.time)[1]) \in 0..23
    /\ IntOf(SplitColon(str.time)[2]) \in 0..59
    /\ IntOf(SplitColon(str.time)[3]) \in 0..59
    /\ str.zone \in {"", "+00:00"}
fromisoformat(str) ==
    [minute |-> str.date * 1440 + IntOf(SplitColon(str.time)[1]) * 60
                + IntOf(SplitColon(str.time)[2]),
     aware |-> str.zone # ""]

\* lines 68-76: what parsing the expiry of a listed subscription comes to:
\* the instant, a ValueError (caught: the subscription is skipped), or an
\* AttributeError (None has no replace), which nothing catches
ParseExpiry(sub) ==
    LET expiry_str == Get(sub, "expirationDateTime", Str(""))
    IN IF expiry_str.kind = "null" THEN [raised |-> "AttributeError"]
       ELSE IF ~IsIsoFormat(ReplaceZ(expiry_str)) THEN [raised |-> "ValueError"]
       ELSE [raised |-> "", expiry |-> fromisoformat(ReplaceZ(expiry_str))]

\* lines 63-65
LookaheadMinutes == 48 * 60
RenewalMinutes == 4200
\* the longest lifetime the platform grants a subscription (docstring, line 25)
PlatformMaxMinutes == 4230
renewal_threshold(now) == now + LookaheadMinutes
new_expiry(now) == FormatZ(now + RenewalMinutes)

\* the schedule "0 0 7 * * *": firing k is due at 07:00 UTC of day k
ScheduledAt(k) == k * 1440 + 7 * 60
\* how late the platform starts a firing, in minutes
Delays == {0, 120, 1440}

\* The subscriptions the service can hold when the first firing runs.
Sub(id, expirationDateTime) ==
    [id |-> id, resource |-> "/me/todo/lists/L1/tasks",
     expirationDateTime |-> expirationDateTime]
SubNoExpiry(id) == [id |-> id, resource |-> "/me/todo/lists/L1/tasks"]
Expiries == {300, 1500, 3300, 3301, 4650}
SubLists ==
    {<<Sub("s1", FormatZ(e))>> : e \in Expiries}
    \cup {<<Sub("s1", FormatZ(3301)), Sub("s2", FormatZ(1500))>>,
          <<Sub("s1", Str("soon")), Sub("s2", FormatZ(1500))>>,
          <<Sub("s1", FormatZ(1500)), Sub("s2", Str("")), Sub("s3", FormatZ(3300))>>,
          <<SubNoExpiry("s1"), Sub("s2", FormatZ(1500))>>,
          <<Sub("s1", FormatZ(4650)), Sub("s2", Null), Sub("s3", FormatZ(1500))>>,
          <<Sub("s1", FormatNaive(1500)), Sub("s2", FormatZ(1500))>>}

\* ren: the firing in hand.  writes: the PATCH calls it has made.  The last
\* four fields outlive a firing: the number of the last firing, whether every
\* firing so far was on time with every call answered 200, the listing of the
\* first firing that had one, and the subscriptions renewed before the expiry
\* they had in that listing.
NoListing == [firing |-> 0 - 1, now |-> 0, subscriptions |-> <<>>]
RenIdle ==
    [pc |-> "idle", token |-> NoToken, subscriptions |-> <<>>, now |-> 0, i |-> 0,
     writes |-> <<>>, evaluated |-> {}, raised |-> "", listed |-> FALSE,
     firing |-> 0 - 1, regular |-> TRUE, first |-> NoListing, renewed |-> {}]
RenewerAtRest == subs = <<>> /\ clock = 0 /\ ren = RenIdle

\* -------------------------------------------------------------------- Init
Init ==
    /\ tasks \in {[l \in ListIds |-> IF l = "L1" THEN src ELSE IF l = "L2" THEN tgt ELSE <<>>] :
                    src \in SourceLists, tgt \in TargetLists}
    /\ ruleDoc \in RuleDocs
    /\ today \in 1..MaxDay
    /\ overlap = FALSE
    /\ inv = [p \in Procs |-> Idle]
    /\ prev = NoPrev
    /\ faults = {}
    /\ GeneratorAtRest
    /\ RenewerAtRest

\* ----------------------------------------------------------------- actions
\* taskChain, lines 151-152: req.params.get("validationToken") is truthy
HasValidationToken(req) ==
    "validationToken" \in DOMAIN req.params /\ req.params.validationToken # ""

Respond(st, status_code, body, raised) ==
    [st EXCEPT !.pc = "done", !.raised = raised,
               !.response = [status_code |-> status_code, body |-> body,
                             mimetype |-> "text/plain"]]

EntryParseFirst(st, req) ==
    IF req.body.kind = "invalid"
    THEN Respond([st EXCEPT !.req = req], 500, "Error: ValueError", "ValueError")
    ELSE IF HasValidationToken(req)
    THEN Respond([st EXCEPT !.req = req], 200, req.params.validationToken, "")
    ELSE IF req.body.kind # "object"
    THEN Respond([st EXCEPT !.req = req], 500, "Error: AttributeError", "AttributeError")
    ELSE [st EXCEPT !.req = req, !.pc = "token",
                    !.notifications = Get(req.body.obj, "value", <<>>)]

EntryLenient(st, req) ==
    IF HasValidationToken(req)
    THEN Respond([st EXCEPT !.req = req], 200, req.params.validationToken, "")
    ELSE IF req.body.kind # "object"
    THEN [st EXCEPT !.req = req, !.pc = "token", !.notifications = <<>>]
    ELSE [st EXCEPT !.req = req, !.pc = "token",
                    !.notifications = Get(req.body.obj, "value", <<>>)]

\* taskChain, lines 151-165: the handshake, then req.get_json() and body.get
Entry(st, req) ==
    IF HasValidationToken(req)
    THEN Respond([st EXCEPT !.req = req], 200, req.params.validationToken, "")
    ELSE IF req.body.kind = "invalid"
    THEN Respond([st EXCEPT !.req = req], 500, "Error: ValueError", "ValueError")
    ELSE IF req.body.kind # "object"
    THEN Respond([st EXCEPT !.req = req], 500, "Error: AttributeError", "AttributeError")
    ELSE [st EXCEPT !.req = req, !.pc = "token",
                    !.notifications = Get(req.body.obj, "value", <<>>)]

\* get_access_token of function_app.py: the token, or the exception it raises
\* (os.environ[...] without the variable, the exchange itself, or
\* response.json()["access_token"] on an answer that holds none)
app_get_access_token(identity) ==
    IF ~identity.configured THEN [raised |-> "KeyError", asked |-> FALSE]
    ELSE IF identity.answer = "token" THEN [raised |-> "", asked |-> TRUE]
    ELSE IF identity.answer = "raises" THEN [raised |-> "ConnectionError", asked |-> TRUE]
    ELSE [raised |-> "KeyError", asked |-> TRUE]

\* The identity as an invocation can find it, and how a remote call can end:
\* answered 2xx, answered non-2xx, or raising (no answer, or an answer whose
\* body is not JSON).
AppIdentities ==
    IF "identity" \in faults THEN Identities ELSE {[configured |-> TRUE, answer |-> "token"]}
Answers == IF "raises" \in faults THEN {"ok", "refused", "raises"} ELSE {"ok", "refused"}

ErrorBody(kind) ==
    CASE kind = "KeyError" -> "Error: KeyError"
      [] kind = "ConnectionError" -> "Error: ConnectionError"
      [] kind = "ValueError" -> "Error: ValueError"
      [] kind = "AttributeError" -> "Error: AttributeError"
      [] OTHER -> "Error"
RaiseSkipsNotification(st, kind) ==
    [st EXCEPT !.raised = kind, !.pc = IF st.pc = "token" THEN "rules" ELSE "notif",
               !.n = @ + 1, !.completed = <<>>, !.t = 0, !.c = 0,
               !.seen = 0, !.app = NoApp, !.post = NoPost]
\* taskChain, lines 215-217: whatever is raised inside the try ends the invocation
Raise(st, kind) == Respond(st, 500, ErrorBody(kind), kind)

\* No invocation of any function is running.
Quiet ==
    /\ \A q \in Procs : inv[q].pc = "idle"
    /\ job.pc = "idle" /\ ren.pc = "idle"

\* The requests a delivery can carry: one that arrives while another is
\* being served is a duplicate of it (the service sends several notifications
\* for one completion).
Deliveries ==
    IF \A q \in Procs : inv[q].pc = "idle" THEN Requests
    ELSE {inv[q].req : q \in {r \in Procs : inv[r].pc # "idle"}}

\* A delivery arrives.  Deliveries that do not overlap are served one at a time.
Receive(p) ==
    /\ inv[p].pc = "idle"
    /\ overlap \/ (p = "A" /\ Quiet)
    /\ \E req \in Deliveries : inv' = [inv EXCEPT ![p] = Entry(Idle, req)]
    /\ UNCHANGED <<tasks, ruleDoc, today, overlap, prev, faults, generator, renewer>>

GetTokenLenient(p) ==
    /\ inv[p].pc = "token"
    /\ \E identity \in AppIdentities :
         LET got == app_get_access_token(identity)
             at == [inv[p] EXCEPT !.calls = IF got.asked THEN @ \cup {"token"} ELSE @]
         IN inv' = [inv EXCEPT ![p] = IF got.raised # "" THEN [at EXCEPT !.pc = "rules"]
                                      ELSE [at EXCEPT !.pc = "rules", !.token = "token"]]
    /\ UNCHANGED <<tasks, ruleDoc, today, overlap, prev, faults, generator, renewer>>

\* taskChain, line 167: get_access_token()
GetToken(p) ==
    /\ inv[p].pc = "token"
    /\ \E identity \in AppIdentities :
         LET got == app_get_access_token(identity)
             at == [inv[p] EXCEPT !.calls = IF got.asked THEN @ \cup {"token"} ELSE @]
         IN inv' = [inv EXCEPT ![p] = IF got.raised # "" THEN Raise(at, got.raised)
                                      ELSE [at EXCEPT !.pc = "rules", !.token = "token"]]
    /\ UNCHANGED <<tasks, ruleDoc, today, overlap, prev, faults, generator, renewer>>

\* taskChain, line 168: get_task_chains(token)
GetChains(p) ==
    /\ inv[p].pc = "rules"
    /\ \E ans \in Answers \ {"refused"} :
         LET at == [inv[p] EXCEPT !.calls = @ \cup {"rules"}]
         IN inv' = [inv EXCEPT ![p] = IF ans = "raises" THEN Raise(at, "ConnectionError")
                                      ELSE [at EXCEPT !.pc = "notif", !.chains = ruleDoc,
                                                      !.n = 1]]
    /\ UNCHANGED <<tasks, ruleDoc, today, overlap, prev, faults, generator, renewer>>

NotificationStepRaise(st, ok) ==
    IF st.n > Len(st.notifications)
    THEN Respond(st, 200, "OK", "")
    ELSE LET list_id == ListIdMatch(Get(st.notifications[st.n], "resource", <<>>))
         IN IF list_id = NoMatch
            THEN Respond(st, 500, "Error: AttributeError", "AttributeError")
            ELSE [st EXCEPT !.pc = "scan", !.calls = @ \cup {"tasks"},
                            !.queried = @ \cup {st.n},
                            !.completed = get_completed_tasks(ok, list_id),
                            !.t = 1, !.c = 1]

NotificationStepNamedTask(st, ok) ==
    IF st.n > Len(st.notifications)
    THEN Respond(st, 200, "OK", "")
    ELSE LET list_id == ListIdMatch(Get(st.notifications[st.n], "resource", <<>>))
         IN IF list_id = NoMatch \/ st.notifications[st.n].resource = ResOther
            THEN [st EXCEPT !.n = @ + 1]
            ELSE [st EXCEPT !.pc = "scan", !.calls = @ \cup {"tasks"},
                            !.queried = @ \cup {st.n},
                            !.completed = get_completed_tasks(ok, list_id),
                            !.t = 1, !.c = 1]

\* taskChain, lines 170-183 and 213: one turn of the loop over the notifications
NotificationStep(st, ok) ==
    IF st.n > Len(st.notifications)
    THEN Respond(st, 200, "OK", "")
    ELSE LET list_id == ListIdMatch(Get(st.notifications[st.n], "resource", <<>>))
         IN IF list_id = NoMatch
            THEN [st EXCEPT !.n = @ + 1]
            ELSE [st EXCEPT !.pc = "scan", !.calls = @ \cup {"tasks"},
                            !.queried = @ \cup {st.n},
                            !.completed = get_completed_tasks(ok, list_id),
                            !.t = 1, !.c = 1]

\* the turn queries the list's completed tasks
QueriesTasks(st) ==
    /\ st.n <= Len(st.notifications)
    /\ ListIdMatch(Get(st.notifications[st.n], "resource", <<>>)) # NoMatch

NextNotification(p) ==
    /\ inv[p].pc = "notif"
    /\ \E ans \in Answers :
         inv' = [inv EXCEPT ![p] =
                    IF ans = "raises" /\ QueriesTasks(inv[p])
                    THEN Raise([inv[p] EXCEPT !.calls = @ \cup {"tasks"},
                                              !.queried = @ \cup {inv[p].n}],
                               "ConnectionError")
                    ELSE NotificationStep(inv[p], ans = "ok")]
    /\ UNCHANGED <<tasks, ruleDoc, today, overlap, prev, faults, generator, renewer>>

\* taskChain, lines 185-190: the pairs (task, chain) the two loops still visit
\* from position (t, c) on whose chain has the task's title as trigger_task
Lower(title) == IF title = "Wash: Towels" THEN "wash: towels" ELSE title
ChainMatchesIgnoreCase(chain, task) ==
    Lower(chain.trigger_task) = Lower(Get(task, "title", ""))
ChainMatches(chain, task) == chain.trigger_task = Get(task, "title", "")
LaterFirstMatch(st) ==
    {tc \in (1..Len(st.completed)) \X (1..Len(st.chains)) :
        /\ tc[1] > st.t \/ (tc[1] = st.t /\ tc[2] >= st.c)
        /\ ChainMatches(st.chains[tc[2]], st.completed[tc[1]])
        /\ \A c \in 1..(tc[2] - 1) : ~ChainMatches(st.chains[c], st.completed[tc[1]])}
Later(st) ==
    {tc \in (1..Len(st.completed)) \X (1..Len(st.chains)) :
        /\ tc[1] > st.t \/ (tc[1] = st.t /\ tc[2] >= st.c)
        /\ ChainMatches(st.chains[tc[2]], st.completed[tc[1]])}
First(S) == CHOOSE tc \in S : \A o \in S : tc[1] < o[1] \/ (tc[1] = o[1] /\ tc[2] <= o[2])

ScanStepBreak(st, ok) ==
    IF Later(st) = {}
    THEN [st EXCEPT !.pc = "notif", !.n = @ + 1, !.completed = <<>>, !.t = 0, !.c = 0,
                    !.seen = 0, !.app = NoApp, !.post = NoPost]
    ELSE LET tc == First(Later(st))
             target == get_list_id(ok, st.chains[tc[2]].list)
             at == [st EXCEPT !.t = tc[1], !.c = tc[2], !.calls = @ \cup {"lists"},
                              !.seen = @ + 1, !.post = NoPost,
                              !.app = [NoApp EXCEPT !.t = tc[1], !.c = tc[2],
                                                    !.target = target]]
         IN IF target = NoList
            THEN [at EXCEPT !.t = @ + 1, !.c = 1]
            ELSE [at EXCEPT !.pc = "exists", !.target_list_id = target]

\* taskChain, lines 185-196: on to the next match, and get_list_id for it
ScanStep(st, ok) ==
    IF Later(st) = {}
    THEN [st EXCEPT !.pc = "notif", !.n = @ + 1, !.completed = <<>>, !.t = 0, !.c = 0,
                    !.seen = 0, !.app = NoApp, !.post = NoPost]
    ELSE LET tc == First(Later(st))
             target == get_list_id(ok, st.chains[tc[2]].list)
             at == [st EXCEPT !.t = tc[1], !.c = tc[2], !.calls = @ \cup {"lists"},
                              !.seen = @ + 1, !.post = NoPost,
                              !.app = [NoApp EXCEPT !.t = tc[1], !.c = tc[2],
                                                    !.target = target]]
         IN IF target = NoList
            THEN [at EXCEPT !.c = @ + 1]
            ELSE [at EXCEPT !.pc = "exists", !.target_list_id = target]

\* the next match, if there is one
NextMatch(st) == First(Later(st))
\* line 193 reads chain["list"]: a KeyError when the matched rule has none
LacksList(st) == Later(st) # {} /\ "list" \notin DOMAIN st.chains[NextMatch(st)[2]]
AtMatch(st) ==
    [st EXCEPT !.t = NextMatch(st)[1], !.c = NextMatch(st)[2], !.seen = @ + 1,
               !.post = NoPost,
               !.app = [NoApp EXCEPT !.t = NextMatch(st)[1], !.c = NextMatch(st)[2]]]

Scan(p) ==
    /\ inv[p].pc = "scan"
    /\ \E ans \in Answers :
         inv' = [inv EXCEPT ![p] =
                    IF LacksList(inv[p]) THEN Raise(AtMatch(inv[p]), "KeyError")
                    ELSE IF ans = "raises" /\ Later(inv[p]) # {}
                    THEN Raise([AtMatch(inv[p]) EXCEPT !.calls = @ \cup {"lists"}],
                               "ConnectionError")
                    ELSE ScanStep(inv[p], ans = "ok")]
    /\ UNCHANGED <<tasks, ruleDoc, today, overlap, prev, faults, generator, renewer>>

\* taskChain, lines 198-200: task_exists on the target list
ExistsStep(st, ok) ==
    LET chain == st.chains[st.c]
        at == [st EXCEPT !.calls = @ \cup {"exists"},
                         !.app.absent = ~TitleIn(st.target_list_id, chain.creates_task),
                         !.app.answered = ok]
    IN IF task_exists(ok, st.target_list_id, chain.creates_task)
       THEN [at EXCEPT !.pc = "scan", !.c = @ + 1, !.target_list_id = NoList]
       ELSE [at EXCEPT !.pc = "create"]

CheckExists(p) ==
    /\ inv[p].pc = "exists"
    /\ \E ans \in Answers :
         inv' = [inv EXCEPT ![p] =
                    IF ans = "raises"
                    THEN Raise([inv[p] EXCEPT !.calls = @ \cup {"exists"}], "ConnectionError")
                    ELSE ExistsStep(inv[p], ans = "ok")]
    /\ UNCHANGED <<tasks, ruleDoc, today, overlap, prev, faults, generator, renewer>>

CreateCallTriggerTitle(st, day, ok) ==
    [n |-> st.n, t |-> st.t, c |-> st.c,
     completed_title |-> Get(st.completed[st.t], "title", ""),
     list_id |-> st.target_list_id,
     body |-> CreateBody(st.chains[st.c].trigger_task, st.chains[st.c].category,
                         Get(st.chains[st.c], "due_time", NoneValue), day),
     day |-> day, ok |-> ok]

\* taskChain, lines 202-210, and create_task: the POST a rule application makes
CreateCall(st, day, ok) ==
    [n |-> st.n, t |-> st.t, c |-> st.c,
     completed_title |-> Get(st.completed[st.t], "title", ""),
     list_id |-> st.target_list_id,
     body |-> CreateBody(st.chains[st.c].creates_task, st.chains[st.c].category,
                         Get(st.chains[st.c], "due_time", NoneValue), day),
     day |-> day, ok |-> ok]

\* taskChain, line 211: the call returned, on to the next chain
AfterCreate(st, call) ==
    [st EXCEPT !.pc = "scan", !.c = @ + 1, !.target_list_id = NoList,
               !.calls = @ \cup {"create"}, !.post = call, !.app.posts = @ + 1,
               !.posted = @ \cup {<<call.list_id, call.body.title>>},
               !.created = IF call.ok THEN @ \cup {<<call.list_id, call.body.title>>} ELSE @]

\* create_task reads the clock (line 129).  A 2xx answer means the service has
\* stored the task.
CreateTaskKeyed(p) ==
    /\ inv[p].pc = "create"
    /\ Len(tasks[inv[p].target_list_id]) < MaxTasks
    /\ \E ans \in Answers \ {"raises"} :
         LET call == CreateCall(inv[p], today, ans = "ok")
         IN /\ tasks' = IF call.ok /\ ~TitleIn(call.list_id, call.body.title)
                        THEN [tasks EXCEPT ![call.list_id] = Append(@, Created(call.body))]
                        ELSE tasks
            /\ inv' = [inv EXCEPT ![p] = AfterCreate(inv[p], call)]
    /\ UNCHANGED <<ruleDoc, today, overlap, prev, faults, generator, renewer>>

\* Line 208 reads chain["category"] before the call is made: a KeyError when
\* the rule has none.
CreateTask(p) ==
    /\ inv[p].pc = "create"
    /\ Len(tasks[inv[p].target_list_id]) < MaxTasks
    /\ \E ans \in Answers :
         IF "category" \notin DOMAIN inv[p].chains[inv[p].c]
         THEN /\ inv' = [inv EXCEPT ![p] = Raise(inv[p], "KeyError")]
              /\ tasks' = tasks
         ELSE IF ans = "raises"
         THEN /\ inv' = [inv EXCEPT ![p] = Raise([inv[p] EXCEPT !.calls = @ \cup {"create"}],
                                                "ConnectionError")]
              /\ tasks' = tasks
         ELSE LET call == CreateCall(inv[p], today, ans = "ok")
              IN /\ tasks' = IF call.ok
                             THEN [tasks EXCEPT ![call.list_id] = Append(@, Created(call.body))]
                             ELSE tasks
                 /\ inv' = [inv EXCEPT ![p] = AfterCreate(inv[p], call)]
    /\ UNCHANGED <<ruleDoc, today, overlap, prev, faults, generator, renewer>>

\* The response reaches the caller and the invocation is over.
Complete(p) ==
    /\ inv[p].pc = "done"
    /\ inv' = [inv EXCEPT ![p] = Idle]
    /\ prev' = IF inv[p].created # {}
               THEN [req |-> inv[p].req, created |-> inv[p].created]
               ELSE prev
    /\ UNCHANGED <<tasks, ruleDoc, today, overlap, faults, generator, renewer>>

Next ==
    \E p \in Procs :
        \/ Receive(p)
        \/ GetToken(p)
        \/ GetChains(p)
        \/ NextNotification(p)
        \/ Scan(p)
        \/ CheckExists(p)
        \/ CreateTask(p)
        \/ Complete(p)

Spec == Init /\ [][Next]_vars

\* No delivery is being served and none can fail hard.
DispatcherAtRest ==
    /\ tasks = [l \in ListIds |-> <<>>] /\ ruleDoc = <<>> /\ today = 1
    /\ overlap = FALSE /\ inv = [p \in Procs |-> Idle] /\ prev = NoPrev
    /\ faults = {}

\* ------------------------------------------- the recurring-task generator
\* The platform starts a job on a date its schedule holds.
JobFire(name) ==
    /\ job.pc = "idle" /\ job.fired < MaxFirings
    /\ overlap \/ Quiet
    /\ Scheduled(name, date)
    /\ job' = [NoJob EXCEPT !.pc = "token", !.name = name, !.fired = job.fired + 1]
    /\ UNCHANGED <<date, home, lastjob, dispatcher, renewer>>

\* token = get_access_token(); if not token: return
JobToken ==
    /\ job.pc = "token"
    /\ \E identity \in Identities :
         job' = IF get_access_token(identity) = NoToken
                THEN [job EXCEPT !.pc = "done"]
                ELSE [job EXCEPT !.pc = "calls", !.k = 1,
                                 !.token = get_access_token(identity)]
    /\ UNCHANGED <<date, home, lastjob, dispatcher, renewer>>

JobCallOnce ==
    /\ job.pc = "calls"
    /\ \E status \in {201, 503} :
         LET body == JobCalls(job.name, date)[job.k]
             held == \E i \in 1..Len(home) : home[i].title = body.title
         IN /\ home' = IF status = 201 /\ ~held THEN Append(home, body) ELSE home
            /\ job' = [job EXCEPT !.issued = IF held THEN @
                                             ELSE Append(@, [body |-> body, status |-> status]),
                                  !.k = @ + 1,
                                  !.pc = IF job.k = Len(JobCalls(job.name, date))
                                         THEN "done" ELSE "calls"]
    /\ UNCHANGED <<date, lastjob, dispatcher, renewer>>

\* the next create_todo_task of the job: the POST, answered 201 or not
JobCall ==
    /\ job.pc = "calls"
    /\ \E status \in {201, 503} :
         LET body == JobCalls(job.name, date)[job.k]
         IN /\ home' = IF status = 201 THEN Append(home, body) ELSE home
            /\ job' = [job EXCEPT !.issued = Append(@, [body |-> body, status |-> status]),
                                  !.k = @ + 1,
                                  !.pc = IF job.k = Len(JobCalls(job.name, date))
                                         THEN "done" ELSE "calls"]
    /\ UNCHANGED <<date, lastjob, dispatcher, renewer>>

JobReturn ==
    /\ job.pc = "done"
    /\ lastjob' = [name |-> job.name, token |-> job.token, issued |-> job.issued]
    /\ job' = [NoJob EXCEPT !.fired = job.fired]
    /\ UNCHANGED <<date, home, dispatcher, renewer>>

InitGenerator ==
    /\ DispatcherAtRest /\ RenewerAtRest
    /\ date \in Dates /\ home = <<>> /\ job = NoJob /\ lastjob = NoLast

NextGenerator ==
    \/ \E name \in JobNames : JobFire(name)
    \/ JobToken
    \/ JobCall
    \/ JobReturn

SpecGenerator == InitGenerator /\ [][NextGenerator]_vars

\* ------------------------------------------------ the subscription renewer
\* The platform starts the next daily firing, on time or late; a firing may
\* also be missed altogether.
RenFire ==
    /\ ren.pc = "idle"
    /\ overlap \/ Quiet
    /\ \E k \in {ren.firing + 1} \cup (IF ren.firing >= 0 THEN {ren.firing + 2} ELSE {}) :
       \E delay \in Delays :
         /\ k < MaxRuns
         /\ ScheduledAt(k) + delay >= clock
         /\ clock' = ScheduledAt(k) + delay
         /\ ren' = [ren EXCEPT !.pc = "token", !.firing = k,
                               !.regular = @ /\ (k = ren.firing + 1)]
    /\ UNCHANGED <<subs, dispatcher, generator>>

\* lines 33-36
RenToken ==
    /\ ren.pc = "token"
    /\ \E identity \in Identities :
         ren' = IF get_access_token(identity) = NoToken
                THEN [ren EXCEPT !.pc = "done", !.regular = FALSE]
                ELSE [ren EXCEPT !.pc = "list", !.token = get_access_token(identity)]
    /\ UNCHANGED <<subs, clock, dispatcher, generator>>

\* lines 47-65: GET /subscriptions, then the clock is read
RenList ==
    /\ ren.pc = "list"
    /\ \E status \in {200, 503} :
         ren' = IF status # 200
                THEN [ren EXCEPT !.pc = "done", !.regular = FALSE]
                ELSE [ren EXCEPT !.pc = IF subs = <<>> THEN "done" ELSE "loop",
                                 !.subscriptions = subs, !.now = clock, !.i = 1,
                                 !.listed = TRUE,
                                 !.first = IF @ = NoListing
                                           THEN [firing |-> ren.firing, now |-> clock,
                                                 subscriptions |-> subs]
                                           ELSE @]
    /\ UNCHANGED <<subs, clock, dispatcher, generator>>

\* the service's answer 200 to PATCH /subscriptions/{id}
Patched(all, id, body) ==
    [j \in 1..Len(all) |->
        IF all[j].id = id
        THEN [all[j] EXCEPT !.expirationDateTime = body.expirationDateTime]
        ELSE all[j]]

\* the expiry the subscription had in the first listing
OriginalExpiry(st, id) ==
    LET j == CHOOSE j \in 1..Len(st.first.subscriptions) : st.first.subscriptions[j].id = id
    IN ParseExpiry(st.first.subscriptions[j]).expiry.minute

InWindowAlways(expiry, now) == TRUE
\* line 78
InWindow(expiry, now) == expiry.minute <= renewal_threshold(now)

\* on to the next subscription of the listing, or out of the loop
Advance(st) ==
    [st EXCEPT !.evaluated = @ \cup {st.i}, !.i = @ + 1,
               !.pc = IF st.i = Len(st.subscriptions) THEN "done" ELSE "loop"]

\* lines 67-96: one turn of the loop over the listing
RenStep ==
    /\ ren.pc = "loop"
    /\ LET sub == ren.subscriptions[ren.i]
           parsed == ParseExpiry(sub)
       IN IF parsed.raised = "AttributeError"
          THEN /\ ren' = [ren EXCEPT !.pc = "done", !.raised = "AttributeError"]
               /\ subs' = subs
          ELSE IF parsed.raised = "ValueError"
          THEN /\ ren' = Advance(ren)
               /\ subs' = subs
          ELSE IF ~parsed.expiry.aware
          THEN /\ ren' = [ren EXCEPT !.pc = "done", !.raised = "TypeError"]
               /\ subs' = subs
          ELSE IF InWindow(parsed.expiry, ren.now)
          THEN \E status \in {200, 503} :
                 LET body == [expirationDateTime |-> new_expiry(ren.now)]
                     write == [id |-> sub.id, body |-> body, status |-> status,
                               old |-> parsed.expiry.minute]
                 IN /\ subs' = IF status = 200 THEN Patched(subs, sub.id, body) ELSE subs
                    /\ ren' = [Advance(ren) EXCEPT
                                 !.writes = Append(@, write),
                                 !.regular = @ /\ status = 200,
                                 !.renewed = IF status = 200
                                                /\ ren.now < OriginalExpiry(ren, sub.id)
                                             THEN @ \cup {sub.id} ELSE @]
          ELSE /\ ren' = Advance(ren)
               /\ subs' = subs
    /\ UNCHANGED <<clock, dispatcher, generator>>

\* the firing is over; what outlives it is kept
RenReturn ==
    /\ ren.pc = "done"
    /\ ren' = [RenIdle EXCEPT !.firing = ren.firing, !.regular = ren.regular,
                              !.first = ren.first, !.renewed = ren.renewed]
    /\ UNCHANGED <<subs, clock, dispatcher, generator>>

InitRenewer ==
    /\ DispatcherAtRest /\ GeneratorAtRest
    /\ subs \in SubLists /\ clock = 0 /\ ren = RenIdle

NextRenewer == RenFire \/ RenToken \/ RenList \/ RenStep \/ RenReturn

SpecRenewer == InitRenewer /\ [][NextRenewer]_vars

\* ----------------------------------------------- the other specifications
\* Two deliveries served at the same time.
InitRace ==
    /\ tasks = [l \in ListIds |-> IF l = "L1" THEN <<TWash>> ELSE <<>>]
    /\ ruleDoc = <<RDry>>
    /\ today = 1 /\ overlap = TRUE /\ faults = {}
    /\ inv = [p \in Procs |-> Idle] /\ prev = NoPrev
    /\ GeneratorAtRest /\ RenewerAtRest

SpecRace == InitRace /\ [][Next]_vars

\* Deliveries served while remote calls may raise, the identity may be missing
\* and the rule document may hold a rule without category or without list.
RNoCategory == [trigger_task |-> "Wash: Towels", creates_task |-> "Dry: Towels",
                list |-> "Chores"]
RNoList == [trigger_task |-> "Wash: Towels", creates_task |-> "Dry: Towels",
            category |-> "[02] Home"]
FaultyRuleDocs == {<<RNoCategory, RFold>>, <<RFold, RNoList>>}
InitFaults ==
    /\ tasks \in {[l \in ListIds |-> IF l = "L1" THEN src ELSE IF l = "L2" THEN tgt ELSE <<>>] :
                    src \in SourceLists, tgt \in TargetLists}
    /\ ruleDoc \in {<<RDry>>, <<RLost, RDry>>} \cup FaultyRuleDocs
    /\ today = 1 /\ overlap = FALSE /\ faults = {"identity", "raises"}
    /\ inv = [p \in Procs |-> Idle] /\ prev = NoPrev
    /\ GeneratorAtRest /\ RenewerAtRest

SpecFaults == InitFaults /\ [][Next]_vars

\* The three kinds of invocation, one at a time, each with the identity as it
\* finds it: deliveries, one more firing of a recurring-task job on Friday
\* 27 Feb 2026, and the renewer's last firing, which is a day overdue.
InitIdentity ==
    /\ tasks = [l \in ListIds |-> IF l = "L1" THEN <<TWash>> ELSE <<>>]
    /\ ruleDoc = <<RDry>>
    /\ today = 1 /\ overlap = FALSE /\ faults = {"identity"}
    /\ inv = [p \in Procs |-> Idle] /\ prev = NoPrev
    /\ date = [year |-> 2026, month |-> 2, day |-> 27] /\ home = <<>>
    /\ job = [NoJob EXCEPT !.fired = MaxFirings - 1] /\ lastjob = NoLast
    /\ subs = <<Sub("s1", FormatZ(1500))>>
    /\ clock = ScheduledAt(MaxRuns - 1) + 1440
    /\ ren = [RenIdle EXCEPT !.firing = MaxRuns - 2, !.regular = FALSE]

NextAll == Next \/ NextGenerator \/ NextRenewer

SpecIdentity == InitIdentity /\ [][NextAll]_vars

\* Deliveries served one at a time while another actor removes, between two
\* of them, a task the dispatcher created.
RemoveSuccessor ==
    /\ \A q \in Procs : inv[q].pc = "idle"
    /\ \E l \in ListIds :
       \E i \in 1..Len(tasks[l]) :
         /\ tasks[l][i].by = "monica"
         /\ tasks' = [tasks EXCEPT ![l] = SubSeq(@, 1, i - 1) \o SubSeq(@, i + 1, Len(@))]
    /\ UNCHANGED <<ruleDoc, today, overlap, inv, prev, faults, generator, renewer>>

InitScan ==
    /\ tasks = [l \in ListIds |-> IF l = "L1" THEN <<TWash>> ELSE <<>>]
    /\ ruleDoc = <<RDry>>
    /\ today = 1 /\ overlap = FALSE /\ faults = {}
    /\ inv = [p \in Procs |-> Idle] /\ prev = NoPrev
    /\ GeneratorAtRest /\ RenewerAtRest

NextScan == Next \/ RemoveSuccessor

SpecScan == InitScan /\ [][NextScan]_vars

\* ================================================================= claims
\* What the claims speak of, stated from the request, the rule document and
\* the store and not from the dispatcher's own helpers.

\* the notification's resource holds lists('<id>')
HasListPattern(notification) ==
    "resource" \in DOMAIN notification /\ notification.resource \in {ResGood, ResOther}
\* the request takes the dispatcher's path with a well-formed body
WellFormed(req) == ~HasValidationToken(req) /\ req.body.kind = "object"
\* the list name resolves to this identifier
ResolvesTo(list_name, id) ==
    \E i \in 1..Len(Lists) :
        /\ Lists[i].displayName = list_name /\ Lists[i].id = id
        /\ \A j \in 1..(i - 1) : Lists[j].displayName # list_name
\* the completed task's title equals the rule's trigger_task
Triggers(rule, task) == "title" \in DOMAIN task /\ task.title = rule.trigger_task
\* the pairs (task, rule), in the order of the two loops, that trigger
Triggering(st) ==
    {tc \in (1..Len(st.completed)) \X (1..Len(st.chains)) :
        Triggers(st.chains[tc[2]], st.completed[tc[1]])}
\* the triggering pairs the loops have reached
Reached(st) ==
    {tc \in Triggering(st) :
        \/ tc[1] < st.t
        \/ tc[1] = st.t /\ tc[2] < st.c
        \/ tc[1] = st.t /\ tc[2] = st.c /\ st.pc \in {"exists", "create"}}
\* the notifications the loop has reached
ReachedNotifications(st) ==
    {k \in 1..Len(st.notifications) :
        k < st.n \/ (k = st.n /\ st.pc \in {"scan", "exists", "create"})}

\* Every triggering pair the loops have reached has had its rule application,
\* and every notification reached that holds the pattern has had its query.
AllApplied ==
    \A p \in Procs :
        /\ inv[p].pc \in {"scan", "exists", "create"}
             => inv[p].seen = Cardinality(Reached(inv[p]))
        /\ inv[p].pc \in {"notif", "scan", "exists", "create"}
             => inv[p].queried = {k \in ReachedNotifications(inv[p]) :
                                    HasListPattern(inv[p].notifications[k])}

\* C1: for every notification that holds lists('<id>') and every completed
\* task of that list whose title is exactly a rule's trigger_task, the rule is
\* applied; when its list name resolved and the target list held no task
\* titled creates_task, the application made exactly one creation call, in
\* the resolved list, with title creates_task and the rule's category.
C1_CreatesSuccessor ==
    /\ AllApplied
    /\ \A p \in Procs :
         LET st == inv[p]
             app == st.app
         IN (st.pc = "scan" /\ app.t > 0 /\ app.target # NoList /\ app.absent)
              => /\ app.posts = 1
                 /\ Triggers(st.chains[app.c], st.completed[app.t])
                 /\ ResolvesTo(st.chains[app.c].list, app.target)
                 /\ st.post.list_id = app.target
                 /\ st.post.body.title = st.chains[app.c].creates_task
                 /\ st.post.body.categories = <<st.chains[app.c].category>>

C1_Witness ==
    \E p \in Procs :
        /\ inv[p].pc = "scan" /\ inv[p].app.posts = 1 /\ inv[p].app.absent
        /\ inv[p].post.ok /\ inv[p].post.list_id = "L2"
        /\ inv[p].post.body.title = "Dry: Towels"
        /\ inv[p].post.body.categories = <<"[02] Home">>
        /\ TitleIn("L2", "Dry: Towels")

\* C2: a delivery served again with the same request, nothing else having
\* changed the store, issues no creation call for a successor the earlier
\* invocation created.
C2_RedeliveryCreatesNothing ==
    \A p \in Procs :
        (inv[p].pc = "done" /\ prev.created # {} /\ inv[p].req = prev.req)
          => inv[p].posted \cap prev.created = {}

\* C3: a list never holds two tasks of the same title that this system created.
C3_AtMostOneSuccessor ==
    \A l \in ListIds :
        \A i, j \in 1..Len(tasks[l]) :
            (/\ tasks[l][i].by = "monica" /\ tasks[l][j].by = "monica"
             /\ tasks[l][i].title = tasks[l][j].title) => i = j

\* C4 as claimed: a rule is applied (list resolution, existence check,
\* creation) only if no earlier rule of the document has the same trigger.
C4_FirstMatchOnly ==
    \A p \in Procs :
        inv[p].app.c > 0
          => \A c \in 1..(inv[p].app.c - 1) :
                ~Triggers(inv[p].chains[c], inv[p].completed[inv[p].app.t])

\* C4 as amended: for each completed task the rules are scanned in document
\* order and every rule whose trigger_task equals the title is applied, also
\* the second and later ones.
C4_EveryMatchApplied ==
    \A p \in Procs :
        /\ inv[p].pc \in {"scan", "exists", "create"}
             => inv[p].seen = Cardinality(Reached(inv[p]))
        /\ inv[p].app.c > 0
             => /\ Triggers(inv[p].chains[inv[p].app.c], inv[p].completed[inv[p].app.t])
                /\ <<inv[p].app.t, inv[p].app.c>> \in Reached(inv[p])
                     \cup {<<inv[p].t, inv[p].c>>}

C4_Witness ==
    \E p \in Procs :
        /\ inv[p].pc = "exists" /\ inv[p].app.c = 2
        /\ Triggers(inv[p].chains[1], inv[p].completed[inv[p].app.t])
        /\ Triggers(inv[p].chains[2], inv[p].completed[inv[p].app.t])
        /\ inv[p].seen = Cardinality(Reached(inv[p]))

\* C5: a creation call is made only for a completed task whose title equals
\* the trigger_task of the rule it is made for; when no completed task of the
\* source list has a rule's trigger_task as title, none is made.
C5_NoMatchNoCreation ==
    \A p \in Procs :
        /\ inv[p].post # NoPost
             => /\ inv[p].post.completed_title = inv[p].chains[inv[p].post.c].trigger_task
                /\ \E i \in 1..Len(tasks["L1"]) :
                      /\ tasks["L1"][i].status = "completed"
                      /\ tasks["L1"][i].title = inv[p].post.completed_title
        /\ inv[p].posted # {}
             => \E i \in 1..Len(tasks["L1"]), c \in 1..Len(ruleDoc) :
                   /\ tasks["L1"][i].status = "completed"
                   /\ tasks["L1"][i].title = ruleDoc[c].trigger_task

C5_Witness ==
    \E p \in Procs :
        /\ inv[p].pc = "done" /\ inv[p].response.status_code = 200
        /\ inv[p].queried # {} /\ inv[p].chains # <<>> /\ inv[p].posted = {}
        /\ \E i \in 1..Len(tasks["L1"]) : tasks["L1"][i].status = "completed"
        /\ \A i \in 1..Len(tasks["L1"]), c \in 1..Len(ruleDoc) :
              tasks["L1"][i].status = "completed"
                => tasks["L1"][i].title # ruleDoc[c].trigger_task

\* C6: a notification whose resource does not hold lists('<id>'), or that has
\* no resource, is skipped without raising: no task query and no creation is
\* made for it, the notifications before and after it have theirs, and the
\* response is 200.
C6_SkipsNotification ==
    \A p \in Procs :
        LET st == inv[p]
        IN /\ st.pc \in {"notif", "scan", "exists", "create"}
                => st.queried = {k \in ReachedNotifications(st) :
                                    HasListPattern(st.notifications[k])}
           /\ st.post # NoPost => HasListPattern(st.notifications[st.post.n])
           /\ (st.pc = "done" /\ WellFormed(st.req))
                => /\ st.response.status_code = 200 /\ st.response.body = "OK"
                   /\ st.raised = ""
                   /\ st.queried = {k \in 1..Len(st.notifications) :
                                       HasListPattern(st.notifications[k])}

C6_Witness ==
    \E p \in Procs :
        /\ inv[p].pc = "done" /\ inv[p].response.status_code = 200
        /\ inv[p].notifications = <<NNoResource, NGood, NNoPattern>>
        /\ inv[p].queried = {2} /\ inv[p].created # {}

\* C7 as claimed: whenever a validationToken query parameter is present the
\* answer is 200, plain text, the token, and no remote call is made.
C7_HandshakeWhenPresent ==
    \A p \in Procs :
        (inv[p].pc # "idle" /\ "validationToken" \in DOMAIN inv[p].req.params)
          => /\ inv[p].pc = "done"
             /\ inv[p].response = [status_code |-> 200, mimetype |-> "text/plain",
                                   body |-> inv[p].req.params.validationToken]
             /\ inv[p].calls = {} /\ inv[p].posted = {}

\* C7 as amended: whenever a non-empty validationToken query parameter is
\* present, on a GET or a POST and whatever the body, the answer is 200, plain
\* text, the token, and no token fetch, rule fetch, task query or creation
\* call is made.
C7_HandshakeWhenNonEmpty ==
    \A p \in Procs :
        (/\ inv[p].pc # "idle" /\ "validationToken" \in DOMAIN inv[p].req.params
         /\ inv[p].req.params.validationToken # "")
          => /\ inv[p].pc = "done"
             /\ inv[p].response = [status_code |-> 200, mimetype |-> "text/plain",
                                   body |-> inv[p].req.params.validationToken]
             /\ inv[p].calls = {} /\ inv[p].posted = {}

C7_Witness ==
    \E p \in Procs :
        /\ inv[p].pc = "done" /\ inv[p].req.method = "POST"
        /\ inv[p].req.body.kind = "invalid"
        /\ "validationToken" \in DOMAIN inv[p].req.params
        /\ inv[p].response.body = "abc123" /\ inv[p].response.status_code = 200

\* C8: with a well-formed body the answer is "OK"/200 also when a rule's list
\* name does not resolve or a creation call is answered non-2xx; that rule
\* application stops there (no creation for an unresolved list, no second
\* call after a refused one) and every later task and notification is
\* processed.
C8_FailuresDoNotAbort ==
    /\ AllApplied
    /\ \A p \in Procs :
         LET st == inv[p]
         IN /\ (st.pc = "done" /\ WellFormed(st.req))
                 => /\ st.response.status_code = 200 /\ st.response.body = "OK"
                    /\ st.n = Len(st.notifications) + 1
            /\ (st.app.t > 0 /\ ~\E l \in ListIds : ResolvesTo(st.chains[st.app.c].list, l))
                 => st.app.target = NoList
            /\ (st.app.t > 0 /\ st.app.target = NoList)
                 => /\ st.app.posts = 0 /\ st.pc = "scan" /\ st.raised = ""
                    /\ st.t = st.app.t /\ st.c = st.app.c + 1
            /\ (st.post # NoPost /\ ~st.post.ok)
                 => /\ st.app.posts = 1 /\ st.pc = "scan" /\ st.raised = ""
                    /\ st.t = st.post.t /\ st.c = st.post.c + 1

C8_Witness ==
    \E p \in Procs :
        /\ inv[p].pc = "exists" /\ inv[p].t = 2 /\ inv[p].c = 2
        /\ inv[p].chains = <<RLost, RDry>>
        /\ inv[p].posted # {} /\ inv[p].created = {}

\* C9: a request without validationToken whose body is not parsable JSON
\* gets an error message with status 500, and no remote call is made for it.
C9_UnparsableBody ==
    \A p \in Procs :
        (/\ inv[p].pc # "idle" /\ "validationToken" \notin DOMAIN inv[p].req.params
         /\ inv[p].req.body.kind = "invalid")
          => /\ inv[p].pc = "done"
             /\ inv[p].response.status_code = 500
             /\ inv[p].response.body = "Error: ValueError"
             /\ inv[p].calls = {} /\ inv[p].queried = {} /\ inv[p].posted = {}

C9_Witness ==
    \E p \in Procs :
        /\ inv[p].pc = "done" /\ inv[p].response.status_code = 500
        /\ "validationToken" \notin DOMAIN inv[p].req.params
        /\ inv[p].req.body.kind = "invalid"

\* C10 as claimed: the creation call carries a dueDateTime if and only if the
\* matched rule has a due_time.
C10_DueIffDueTime ==
    \A p \in Procs :
        inv[p].post # NoPost
          => ("dueDateTime" \in DOMAIN inv[p].post.body
                <=> "due_time" \in DOMAIN inv[p].chains[inv[p].post.c])

\* C10 as amended: the creation call carries a dueDateTime if and only if the
\* matched rule has a due_time that is non-empty and parses as hour:minute
\* with hour 0..23 and minute 0..59; it is then the clock's UTC date at that
\* hour and minute, second 00, timeZone "UTC", whatever the day the trigger
\* task was completed.  Without due_time, or with one that is empty or does
\* not parse, the call carries none.
IsTimeOfDay(due_time) ==
    \E h \in 0..23, m \in 0..59 : \E a, b \in 1..2 :
        /\ Len(due_time) = a + 1 + b /\ due_time[a + 1] = ":"
        /\ IsInt(SubSeq(due_time, 1, a)) /\ IntOf(SubSeq(due_time, 1, a)) = h
        /\ IsInt(SubSeq(due_time, a + 2, a + 1 + b))
        /\ IntOf(SubSeq(due_time, a + 2, a + 1 + b)) = m
C10_DueWhenParses ==
    \A p \in Procs :
        inv[p].post # NoPost
          => LET chain == inv[p].chains[inv[p].post.c]
                 body == inv[p].post.body
             IN /\ "dueDateTime" \in DOMAIN body
                     <=> ("due_time" \in DOMAIN chain /\ IsTimeOfDay(chain.due_time))
                /\ "dueDateTime" \in DOMAIN body
                     => /\ body.dueDateTime.timeZone = "UTC"
                        /\ body.dueDateTime.dateTime.date = today
                        /\ Len(chain.due_time) = 5
                             => body.dueDateTime.dateTime.time
                                  = chain.due_time \o <<":", "0", "0">>
                        /\ body.dueDateTime.dateTime.fraction = ".0000000"

C10_Witness ==
    \E p \in Procs :
        /\ inv[p].post # NoPost /\ "dueDateTime" \in DOMAIN inv[p].post.body
        /\ inv[p].post.body.dueDateTime.dateTime.time
             = <<"1", "9", ":", "0", "0", ":", "0", "0">>
        /\ inv[p].post.body.dueDateTime.dateTime.date = today
        /\ inv[p].completed[inv[p].post.t].completedDay # today

\* ------------------------------------------ claims about the timers' jobs
\* the titles of the creation calls a firing has issued, in order
IssuedTitles(issued) == [k \in 1..Len(issued) |-> issued[k].body.title]
\* the bodies of the creation calls a firing has issued, in order
IssuedBodies(issued) == [k \in 1..Len(issued) |-> issued[k].body]
\* how many of these calls carried this body and were answered 201
Accepted(issued, body) ==
    Cardinality({k \in 1..Len(issued) : issued[k].body = body /\ issued[k].status = 201})
\* how many tasks of the home list were created from this body
Held(body) == Cardinality({i \in 1..Len(home) : home[i] = body})
\* the job ran to its end with a token
JobFinished(j) == j.pc = "done" /\ j.token # NoToken
\* the two fortnightly series: the title and the anchor date
Series ==
    {[title |-> "Wash: Bath Towels", anchor |-> [year |-> 2026, month |-> 2, day |-> 27]],
     [title |-> "Wash: Bedding", anchor |-> [year |-> 2026, month |-> 3, day |-> 6]]}

\* C11: a Friday firing (with a token) on the date D + 7*n, D the anchor of a
\* series, issues the creation call of the series exactly once when n >= 0
\* and n is even, and not at all otherwise; for Bath Towels (27 Feb 2026) and
\* for Bedding (6 Mar 2026).
C11_FortnightlySeries ==
    (JobFinished(job) /\ job.name = "createFridayTasks")
      => \A series \in Series :
            \E n \in (0 - MaxWeeks - 4)..(MaxWeeks + 4) :
                /\ Ordinal(date) = Ordinal(series.anchor) + 7 * n
                /\ Cardinality({k \in 1..Len(job.issued) :
                                   job.issued[k].body.title = series.title})
                     = IF n >= 0 /\ n % 2 = 0 THEN 1 ELSE 0

C11_Witness ==
    /\ JobFinished(job) /\ job.name = "createFridayTasks"
    /\ date = [year |-> 2026, month |-> 3, day |-> 13]
    /\ IssuedTitles(job.issued) = <<"Vacuum: through and dust", "Wash: Bath Towels">>
    /\ \E i \in 1..Len(home) : home[i].title = "Wash: Bath Towels"

\* C16: a firing that has a token issues the job's fixed calls whatever the
\* home list holds and whatever the service answers: the morning job issues
\* its four calls in order, a job fired again on the same date issues the
\* same calls again, a call answered other than 201 is followed by the
\* remaining calls, and every call answered 201 adds one more task, also one
\* the list already holds.
C16_UnconditionalCalls ==
    /\ (JobFinished(job) /\ job.name = "createMorningTasks")
         => IssuedTitles(job.issued)
              = <<"First: Make the Bed", "Take: Morning pill", "Shower", "Train: Place">>
    /\ (JobFinished(job) /\ job.name = "createMondayTasks")
         => IssuedTitles(job.issued) = <<"Wash: Blue Monday", "Vacuum: through and dust">>
    /\ (JobFinished(job) /\ lastjob.name = job.name /\ lastjob.token # NoToken)
         => /\ job.issued # <<>>
            /\ IssuedBodies(job.issued) = IssuedBodies(lastjob.issued)
    /\ \A k \in 1..Len(job.issued) :
          Held(job.issued[k].body)
            >= Accepted(job.issued, job.issued[k].body)
               + Accepted(lastjob.issued, job.issued[k].body)

C16_Witness ==
    /\ JobFinished(job) /\ job.name = "createMorningTasks"
    /\ lastjob.name = "createMorningTasks" /\ lastjob.token # NoToken
    /\ job.issued[1].status = 503 /\ job.issued[3].status = 201
    /\ lastjob.issued[3].status = 201
    /\ Cardinality({i \in 1..Len(home) : home[i].title = "Shower"}) = 2

\* ---------------------------------------------- claims about the renewer
\* the subscription's expirationDateTime is a timestamp (it parses)
IsTimestamp(sub) ==
    /\ "expirationDateTime" \in DOMAIN sub
    /\ "time" \in DOMAIN sub.expirationDateTime
\* the instant a timestamp string names, in minutes
InstantOf(str) == fromisoformat(ReplaceZ(str)).minute
\* the firing has sent a PATCH to this subscription
Written(st, id) == \E k \in 1..Len(st.writes) : st.writes[k].id = id
\* the firing got its listing and is over
ListedAndOver(st) == st.pc = "done" /\ st.listed

\* C12: in a firing that got its listing, a subscription is sent a PATCH if
\* and only if its expiry is a timestamp at or before now + 48 hours, and the
\* subscription ids the service holds are those of the listing.
C12_RenewsExactlyTheWindow ==
    ListedAndOver(ren)
      => /\ \A i \in 1..Len(ren.subscriptions) :
               Written(ren, ren.subscriptions[i].id)
                 <=> /\ IsTimestamp(ren.subscriptions[i])
                     /\ InstantOf(ren.subscriptions[i].expirationDateTime)
                          <= clock + 48 * 60
         /\ [j \in 1..Len(subs) |-> subs[j].id]
              = [j \in 1..Len(ren.subscriptions) |-> ren.subscriptions[j].id]

\* C13: when no firing was missed or more than 24 hours late and every token,
\* listing and renewal call succeeded, a subscription that the first listing
\* showed unexpired with at most 4230 minutes to live is unexpired at every
\* later firing, and was renewed before the expiry it had in that listing.
C13_NeverLapses ==
    (ren.regular /\ ren.listed /\ ren.firing > ren.first.firing)
      => \A j \in 1..Len(ren.first.subscriptions) :
            LET was == ren.first.subscriptions[j]
                is == ren.subscriptions[j]
            IN (/\ IsTimestamp(was) /\ was.expirationDateTime.zone = "Z"
                /\ InstantOf(was.expirationDateTime) - ren.first.now \in 1..4230)
                 => /\ InstantOf(is.expirationDateTime) > ren.now
                    /\ ren.now >= InstantOf(was.expirationDateTime)
                         => was.id \in ren.renewed

\* C14: in a firing whose listing holds timestamps and expiries that are no
\* timestamp (text, empty, missing, null), the latter get no PATCH, every
\* subscription of the listing is evaluated, and those in the window are
\* renewed.
C14_UnparsableIsSkipped ==
    (/\ ListedAndOver(ren)
     /\ \A i \in 1..Len(ren.subscriptions) :
           IsTimestamp(ren.subscriptions[i])
             => ren.subscriptions[i].expirationDateTime.zone = "Z")
      => /\ ren.evaluated = 1..Len(ren.subscriptions)
         /\ \A i \in 1..Len(ren.subscriptions) :
               /\ ~IsTimestamp(ren.subscriptions[i])
                    => ~Written(ren, ren.subscriptions[i].id)
               /\ (/\ IsTimestamp(ren.subscriptions[i])
                   /\ InstantOf(ren.subscriptions[i].expirationDateTime) <= clock + 48 * 60)
                    => Written(ren, ren.subscriptions[i].id)

\* C20: every PATCH of a firing carries the same expiry, the firing's time
\* plus 4200 minutes; it is later than the expiry the subscription had and at
\* most 4230 minutes after the firing's time; once answered 200 it is the
\* expiry the service holds.
C20_NewExpiry ==
    \A k \in 1..Len(ren.writes) :
        LET write == ren.writes[k]
            given == InstantOf(write.body.expirationDateTime)
            held == CHOOSE j \in 1..Len(ren.subscriptions) :
                        ren.subscriptions[j].id = write.id
        IN /\ given = clock + 70 * 60
           /\ write.body = ren.writes[1].body
           /\ given > InstantOf(ren.subscriptions[held].expirationDateTime)
           /\ given <= clock + PlatformMaxMinutes
           /\ write.status = 200 => subs[held].expirationDateTime = FormatZ(given)

C20_Witness ==
    /\ ListedAndOver(ren) /\ Len(ren.writes) = 2
    /\ ren.writes[1].status = 200 /\ ren.writes[2].status = 200
    /\ ren.writes[1].id # ren.writes[2].id
    /\ InstantOf(ren.subscriptions[1].expirationDateTime)
         # InstantOf(ren.subscriptions[2].expirationDateTime)
    /\ subs[1].expirationDateTime = subs[2].expirationDateTime

\* --------------------------------------------------------------- identity
InitialSubs == <<Sub("s1", FormatZ(1500))>>
InitialTasks == [l \in ListIds |-> IF l = "L1" THEN <<TWash>> ELSE <<>>]
AcceptedCalls(issued) == SelectSeq(issued, LAMBDA call : call.status = 201)

\* C15: an invocation that gets no access token makes no call that writes: a
\* job issues no creation call, the renewer neither lists nor renews, and the
\* handler answers 500 having queried and created nothing.  What the stores
\* hold is then the work of the invocations that had a token, and an
\* invocation that has one does all its work whatever became of the one before.
C15_NoTokenNoWrites ==
    /\ \A p \in Procs :
         /\ (inv[p].pc \notin {"idle", "token"} /\ WellFormed(inv[p].req)
               /\ inv[p].token = NoToken)
              => /\ inv[p].pc = "done" /\ inv[p].response.status_code = 500
                 /\ inv[p].calls \subseteq {"token"}
                 /\ inv[p].queried = {} /\ inv[p].posted = {}
         /\ (inv[p].pc = "done" /\ WellFormed(inv[p].req) /\ inv[p].token # NoToken)
              => /\ inv[p].response.status_code = 200
                 /\ inv[p].n = Len(inv[p].notifications) + 1
    /\ (job.pc # "idle" /\ job.token = NoToken)
         => job.pc \in {"token", "done"} /\ job.issued = <<>>
    /\ (job.pc = "done" /\ job.token # NoToken)
         => Len(job.issued) = Len(JobCalls(job.name, date))
    /\ (ren.pc # "idle" /\ ren.token = NoToken)
         => ren.pc \in {"token", "done"} /\ ~ren.listed /\ ren.writes = <<>>
    /\ Len(home) = Len(AcceptedCalls(lastjob.issued)) + Len(AcceptedCalls(job.issued))
    /\ subs # InitialSubs => ren.first # NoListing
    /\ tasks # InitialTasks
         => prev.created # {} \/ \E p \in Procs : inv[p].created # {}

C15_Witness ==
    /\ inv["A"].pc = "done" /\ WellFormed(inv["A"].req) /\ inv["A"].token = NoToken
    /\ inv["A"].notifications # <<>>
    /\ inv["A"].response.status_code = 500
    /\ tasks = InitialTasks /\ prev = NoPrev
    /\ lastjob.name = "createFridayTasks" /\ lastjob.token = NoToken /\ home = <<>>
    /\ ren.pc = "idle" /\ ren.firing = MaxRuns - 1 /\ ren.first = NoListing
    /\ subs = InitialSubs

\* C17: a rule application whose existence query on the target list was
\* answered non-2xx is abandoned: no creation call is made for it (the rest of
\* the batch is processed all the same).
C17_FailedCheckAbandons ==
    \A p \in Procs :
        /\ (inv[p].pc = "create" \/ inv[p].app.posts > 0) => inv[p].app.answered
        /\ (inv[p].pc = "done" /\ WellFormed(inv[p].req))
             => inv[p].n = Len(inv[p].notifications) + 1

\* ------------------------------------------------------------------- race
\* the tasks of a list with this title that the dispatcher created
Successors(list_id, title) ==
    {i \in 1..Len(tasks[list_id]) :
        tasks[list_id][i].title = title /\ tasks[list_id][i].by = "monica"}
\* the invocation's application in hand found the successor absent, by a
\* query that was answered, and its creation call was accepted
CreatedAfterCheck(st) ==
    /\ st.post # NoPost /\ st.post.ok
    /\ st.app.posts = 1 /\ st.app.answered /\ st.app.absent

\* C18: when two invocations serving the same completed trigger task have
\* both found the successor absent before either created it, both create it:
\* the target list holds two tasks titled creates_task.
C18_RaceCreatesTwo ==
    \A p, q \in Procs :
        (/\ p # q
         /\ CreatedAfterCheck(inv[p]) /\ CreatedAfterCheck(inv[q])
         /\ inv[p].post.list_id = inv[q].post.list_id
         /\ inv[p].post.body.title = inv[q].post.body.title)
        => Cardinality(Successors(inv[p].post.list_id, inv[p].post.body.title)) >= 2

C18_Witness ==
    /\ CreatedAfterCheck(inv["A"]) /\ CreatedAfterCheck(inv["B"])
    /\ inv["A"].req = inv["B"].req
    /\ inv["A"].post.completed_title = "Wash: Towels"
    /\ inv["B"].post.completed_title = "Wash: Towels"
    /\ inv["A"].post.body.title = "Dry: Towels"
    /\ inv["B"].post.body.title = "Dry: Towels"
    /\ Len(tasks["L1"]) = 1
    /\ Cardinality(Successors("L2", "Dry: Towels")) = 2

\* ----------------------------------------------------------------- faults
\* C19 as stated: a failure raised while one notification or one completed
\* task is processed does not abort the batch; every notification of a
\* well-formed request is still processed.
C19_RaisedDoesNotAbort ==
    \A p \in Procs :
        (inv[p].pc = "done" /\ WellFormed(inv[p].req) /\ inv[p].n >= 1)
            => inv[p].n = Len(inv[p].notifications) + 1

\* C19: a failure raised inside the handler (a remote call that raises or
\* whose body cannot be parsed, a matched rule without list or category) ends
\* the invocation at once: the answer is 500 with the error's text, no later
\* completed task or notification is processed, and what was created before
\* stays created.  An invocation in which nothing is raised processes the
\* whole batch and answers 200.
C19_RaisedAbortsBatch ==
    \A p \in Procs :
        /\ inv[p].raised # ""
             => /\ inv[p].pc = "done"
                /\ inv[p].response.status_code = 500
                /\ inv[p].response.body = ErrorBody(inv[p].raised)
                /\ inv[p].n >= 1
                     => /\ inv[p].n <= Len(inv[p].notifications)
                        /\ inv[p].queried \subseteq 1..inv[p].n
                /\ \A made \in inv[p].created :
                     \E i \in 1..Len(tasks[made[1]]) :
                        /\ tasks[made[1]][i].title = made[2]
                        /\ tasks[made[1]][i].by = "monica"
        /\ (inv[p].pc = "done" /\ WellFormed(inv[p].req) /\ inv[p].raised = "")
             => /\ inv[p].response.status_code = 200
                /\ inv[p].n = Len(inv[p].notifications) + 1

C19_Witness ==
    /\ inv["A"].pc = "done" /\ inv["A"].raised = "KeyError"
    /\ inv["A"].response.status_code = 500
    /\ inv["A"].n = 1 /\ Len(inv["A"].notifications) = 2
    /\ HasListPattern(inv["A"].notifications[2])
    /\ inv["A"].created # {}
    /\ inv["A"].chains = <<RFold, RNoList>>

\* ------------------------------------------------- the two Friday series
\* how many creation calls of the firing carry this title
IssuedCount(j, title) ==
    Cardinality({k \in 1..Len(j.issued) : j.issued[k].body.title = title})
Feb27 == [year |-> 2026, month |-> 2, day |-> 27]
Mar6 == [year |-> 2026, month |-> 3, day |-> 6]

\* C21: the two fortnightly series are in opposite phase.  No Friday firing
\* creates both "Wash: Bath Towels" and "Wash: Bedding"; a Friday firing on
\* or after 6 Mar 2026 creates exactly one of them, the firing of 27 Feb 2026
\* creates Bath Towels only, and a firing before 27 Feb 2026 creates neither.
C21_OppositePhase ==
    (JobFinished(job) /\ job.name = "createFridayTasks")
      => LET bath == IssuedCount(job, "Wash: Bath Towels")
             bedding == IssuedCount(job, "Wash: Bedding")
         IN /\ bath <= 1 /\ bedding <= 1
            /\ ~(bath >= 1 /\ bedding >= 1)
            /\ Ordinal(date) >= Ordinal(Mar6) => bath + bedding = 1
            /\ date = Feb27 => bath = 1 /\ bedding = 0
            /\ Ordinal(date) < Ordinal(Feb27) => bath = 0 /\ bedding = 0

C21_Witness ==
    /\ JobFinished(job) /\ job.name = "createFridayTasks"
    /\ date = Mar6
    /\ IssuedTitles(job.issued) = <<"Vacuum: through and dust", "Wash: Bedding">>
    /\ lastjob.name = "createFridayTasks" /\ lastjob.token # NoToken
    /\ IssuedCount(lastjob, "Wash: Bath Towels") = 0

\* ------------------------------------------------ the guard and the scan
\* the tasks of a list with this title, whatever their status and author
Titled(list_id, title) ==
    {i \in 1..Len(tasks[list_id]) : Get(tasks[list_id][i], "title", "") = title}

\* C22: the guard matches on title alone.  While the target list holds a task
\* titled creates_task, not started or completed, no invocation creates
\* another: no creation call is about to be made for a title the list holds,
\* and an accepted creation call leaves exactly one task of its title.
C22_TitleGuards ==
    \A p \in Procs :
        /\ inv[p].pc = "create"
             => Titled(inv[p].target_list_id, inv[p].chains[inv[p].c].creates_task) = {}
        /\ (inv[p].post # NoPost /\ inv[p].post.ok)
             => Cardinality(Titled(inv[p].post.list_id, inv[p].post.body.title)) = 1

\* C23: a notification leads to the evaluation of every completed task of
\* its list, whichever task it names.  Every notification that names a list
\* has its query; a query that is answered returns all completed tasks of the
\* list; and when the trigger is among them, the target list resolved and no
\* task titled creates_task is in it (another actor removed the one created
\* before), the creation call is made again, and once accepted the successor
\* is in the list again.
C23_RescanRecreates ==
    \A p \in Procs :
        LET st == inv[p]
        IN /\ (st.pc = "done" /\ WellFormed(st.req) /\ st.raised = "")
                => st.queried = {k \in 1..Len(st.notifications) :
                                    HasListPattern(st.notifications[k])}
           /\ st.completed # <<>>
                => st.completed = SelectSeq(tasks["L1"],
                                            LAMBDA task : task.status = "completed")
           /\ (/\ st.pc = "scan" /\ st.app.t > 0
               /\ st.app.target # NoList /\ st.app.absent)
                => /\ Triggers(st.chains[st.app.c], st.completed[st.app.t])
                   /\ st.app.posts = 1
                   /\ st.post.list_id = st.app.target
                   /\ st.post.body.title = st.chains[st.app.c].creates_task
                   /\ st.post.ok
                        => /\ Cardinality(Titled(st.post.list_id, st.post.body.title)) >= 1
                           /\ <<st.post.list_id, st.post.body.title>> \in st.created
           /\ (st.pc = "done" /\ st.created # {}) => st.response.status_code = 200

C23_Witness ==
    /\ <<"L2", "Dry: Towels">> \in prev.created
    /\ inv["A"].pc = "scan"
    /\ inv["A"].notifications = <<NOther>>
    /\ inv["A"].app.absent /\ inv["A"].app.answered
    /\ inv["A"].post # NoPost /\ inv["A"].post.ok
    /\ inv["A"].created = {<<"L2", "Dry: Towels">>}
    /\ Len(tasks["L1"]) = 1 /\ tasks["L1"][1].status = "completed"
    /\ Cardinality(Titled("L2", "Dry: Towels")) = 1

====
